---- MODULE Spec2Model ----
(***************************************************************************)
(* MaestroQuiz: the music-notation layout engine (components/Staff.tsx,    *)
(* clef-aware, width-parameterised variant) and the pitch arithmetic of    *)
(* constants.ts (getNoteStepsFromC4).                                      *)
(*                                                                         *)
(* A RenderData value is a record whose optional fields may be missing,    *)
(* as in the JavaScript object: a field is "truthy" iff it is in DOMAIN.   *)
(* A pitch string is a sequence of one-character strings.  A scene is the  *)
(* sequence of SVG primitives in document (= paint) order; the field       *)
(* "role" names the JSX expression that emitted the primitive.             *)
(***************************************************************************)
EXTENDS Integers, Sequences, FiniteSets, TLC

VARIABLES
    pc,       \* "idle" | "mounted" (props given, not rendered) | "rendered" | "call" | "returned"
    data,     \* props.data of the Staff component (RenderData)
    width,    \* props.width of the Staff component
    locals,   \* the local constants renderNote computed in the last render
    scene,    \* the primitives the last render produced
    args,     \* arguments of a direct call of getNoteStepsFromC4
    ret,      \* its return value
    staffs,   \* the Staff components of one screen: instance -> [pc, data, width, scene]
    frames,   \* the renderNote locals of the render calls in progress on that screen
    gameState,       \* App: useState<GameState> (status, currentQuestionIndex, score, questions, history)
    selectedOption,  \* App: useState<string | null>
    feedback,        \* App: useState<'correct' | 'incorrect' | null>
    timers,          \* the pending setTimeout callbacks of handleAnswer, oldest first, with what each closure captured
    games,           \* the number of generateQuiz calls so far (the identity of the question objects)
    lastCall,        \* the last handler of App that ran, with the effects it requested
    quizGen,         \* generateQuiz: its arguments, its locals (i, questions, lastAnswer) and the Math.random stream
    localStorage,    \* localStorage[STORAGE_KEY]: null or the stored string
    today,           \* the day new Date() falls on
    loaded           \* what the last call of the storage service returned

\* the state of the layout engine and of the App component
engineVars == <<pc, data, width, locals, scene, args, ret, staffs, frames>>
appVars == <<gameState, selectedOption, feedback, timers, games, lastCall>>

serviceVars == <<quizGen, localStorage, today, loaded>>

vars == <<engineVars, appVars, serviceVars>>

-----------------------------------------------------------------------------
(* Bounds of the model *)

\* getNoteStepsFromC4 is called with octaves 4 - OctaveSpan .. 4 + OctaveSpan
OctaveSpan == 6

\* the Staff components rendered side by side on one screen
NumStaffs == 2

\* generateQuiz fills the quiz with this many questions (10 in the code)
NumQuestions == 2

\* handleAnswer timers pending at once (each lasts 1500 ms)
MaxTimers == 2

\* quizzes started in one session
MaxGames == 3

\* answers recorded in the stored statistics
MaxUpdates == 3

\* the days the session spans
NumDays == 2

-----------------------------------------------------------------------------
(* constants.ts: pitch arithmetic *)

Letters == {"C", "D", "E", "F", "G", "A", "B"}
LowerLetters == {"c", "d", "e", "f", "g", "a", "b"}

\* String.prototype.toUpperCase on a one-character string
toUpperCase(ch) ==
    CASE ch = "a" -> "A" [] ch = "b" -> "B" [] ch = "c" -> "C"
      [] ch = "d" -> "D" [] ch = "e" -> "E" [] ch = "f" -> "F"
      [] ch = "g" -> "G" [] ch = "h" -> "H" [] OTHER -> ch

noteMap ==
    ("C" :> 0) @@ ("D" :> 1) @@ ("E" :> 2) @@ ("F" :> 3) @@
    ("G" :> 4) @@ ("A" :> 5) @@ ("B" :> 6)

NaN == "NaN"

\* a mis-transcribed octave width (8 steps per octave)
getNoteStepsFromC4_octave8(pitchName, octave) ==
    noteMap[toUpperCase(pitchName)] + ((octave - 4) * 8)

getNoteStepsFromC4(pitchName, octave) ==
    IF toUpperCase(pitchName) \in DOMAIN noteMap
    THEN LET baseStep == noteMap[toUpperCase(pitchName)]
             octaveDiff == octave - 4
         IN  baseStep + (octaveDiff * 7)
    ELSE NaN   \* undefined + number

-----------------------------------------------------------------------------
(* components/Staff.tsx: the Staff component *)

height == 280
staffYStart == 100
lineSpacing == 20
staffLines == [i \in 1..5 |-> staffYStart + (i - 1) * lineSpacing]

\* width / 2; every width the application passes is even
center(w) == w \div 2

clefOf(d) == IF "clef" \in DOMAIN d THEN d.clef ELSE "treble"

Digits == {"0", "1", "2", "3", "4", "5", "6", "7", "8", "9"}

\* parseInt(s, 10) on a one-digit string
parseInt(s) ==
    CASE s = "0" -> 0 [] s = "1" -> 1 [] s = "2" -> 2 [] s = "3" -> 3
      [] s = "4" -> 4 [] s = "5" -> 5 [] s = "6" -> 6 [] s = "7" -> 7
      [] s = "8" -> 8 [] s = "9" -> 9

\* the pattern with the i flag: lower-case letters accepted
pitchMatches_ignoreCase(pitch) ==
    /\ Len(pitch) = 2
    /\ pitch[1] \in {"A", "B", "C", "D", "E", "F", "G",
                     "a", "b", "c", "d", "e", "f", "g"}
    /\ pitch[2] \in {"0", "1", "2", "3", "4", "5", "6", "7", "8", "9"}

\* pitch.match(/^([A-G])(\d)$/): TRUE iff the match is not null
pitchMatches(pitch) ==
    /\ Len(pitch) = 2
    /\ pitch[1] \in {"A", "B", "C", "D", "E", "F", "G"}
    /\ pitch[2] \in Digits

\* the clef ignored: every note placed by the treble reference
noteY_trebleOnly(stepsFromC4, c) == 180 - (stepsFromC4 - 2) * 10

\* the sign of the slope flipped (higher pitch drawn lower)
noteY_ascending(stepsFromC4, c) ==
    IF c = "treble" THEN 180 + (stepsFromC4 - 2) * 10
                    ELSE 180 + (stepsFromC4 + 10) * 10

\* the bass reference taken as step -12 instead of -10
noteY_bassOffset(stepsFromC4, c) ==
    IF c = "treble" THEN 180 - (stepsFromC4 - 2) * 10
                    ELSE 180 - (stepsFromC4 + 12) * 10

noteY(stepsFromC4, c) ==
    IF c = "treble" THEN 180 - (stepsFromC4 - 2) * 10
                    ELSE 180 - (stepsFromC4 + 10) * 10

\* the bass pivot one step off (E3 instead of D3)
centerStep_bassShifted(c) == IF c = "treble" THEN 6 ELSE -5

centerStep(c) == IF c = "treble" THEN 6 ELSE -6

\* a strict comparison at the pivot
stemDirection_strict(stepsFromC4, c) ==
    IF stepsFromC4 > centerStep(c) THEN "down" ELSE "up"

stemDirection(stepsFromC4, c) ==
    IF stepsFromC4 >= centerStep(c) THEN "down" ELSE "up"

stemHeight == 65
noteColor == "black"

\* the stem on the right of the notehead for both directions
stemX_sameSide(dir, w) == center(w) + 14

stemX(dir, w) == IF dir = "up" THEN center(w) + 14 ELSE center(w) - 14

stemStartY(y, dir) == y + (IF dir = "up" THEN -5 ELSE 5)

stemEndY(y, dir) == y + (IF dir = "up" THEN -stemHeight ELSE stemHeight)

staffTop == 100
staffBottom == 180
ledgerHalfWidth == 20

\* for (let y = staffTop - 20; y >= noteY; y -= 20) ledgerLines.push(y)
RECURSIVE ledgerAbove(_, _)
ledgerAbove(y, ny) ==
    IF y >= ny THEN <<y>> \o ledgerAbove(y - 20, ny) ELSE <<>>

\* for (let y = staffBottom + 20; y <= noteY; y += 20) ledgerLines.push(y)
RECURSIVE ledgerBelow(_, _)
ledgerBelow(y, ny) ==
    IF y <= ny THEN <<y>> \o ledgerBelow(y + 20, ny) ELSE <<>>

\* the loops started on the staff boundary itself
ledgerLines_fromBoundary(ny) ==
    (IF ny < staffTop THEN ledgerAbove(staffTop, ny) ELSE <<>>)
    \o (IF ny > staffBottom THEN ledgerBelow(staffBottom, ny) ELSE <<>>)

\* the loops with strict bounds (y > noteY, y < noteY)
ledgerLines_strictLoop(ny) ==
    (IF ny < staffTop THEN ledgerAbove(staffTop - 20, ny + 1) ELSE <<>>)
    \o (IF ny > staffBottom THEN ledgerBelow(staffBottom + 20, ny - 1) ELSE <<>>)

ledgerLines(ny) ==
    (IF ny < staffTop THEN ledgerAbove(staffTop - 20, ny) ELSE <<>>)
    \o (IF ny > staffBottom THEN ledgerBelow(staffBottom + 20, ny) ELSE <<>>)

-----------------------------------------------------------------------------
(* renderNote *)

\* the local constants of renderNote for a pitch the pattern accepts
noteLocals(noteData, c, w) ==
    LET noteName == noteData.pitch[1]
        octave == parseInt(noteData.pitch[2])
        stepsFromC4 == getNoteStepsFromC4(noteName, octave)
        ny == noteY(stepsFromC4, c)
        dir == stemDirection(stepsFromC4, c)
    IN  [matched |-> TRUE,
         stepsFromC4 |-> stepsFromC4,
         noteY |-> ny,
         centerStep |-> centerStep(c),
         stemDirection |-> dir,
         stemX |-> stemX(dir, w),
         stemStartY |-> stemStartY(ny, dir),
         stemEndY |-> stemEndY(ny, dir),
         ledgerLines |-> ledgerLines(ny)]

NoLocals == [matched |-> FALSE]

ledgerPrims(l, w) ==
    [i \in 1..Len(l.ledgerLines) |->
        [kind |-> "line", role |-> "ledger",
         x1 |-> center(w) - ledgerHalfWidth, y1 |-> l.ledgerLines[i],
         x2 |-> center(w) + ledgerHalfWidth, y2 |-> l.ledgerLines[i],
         stroke |-> "black", strokeWidth |-> 2]]

\* only the whole note left hollow
headFill_halfFilled(duration) ==
    IF duration = "whole" THEN "none" ELSE noteColor

headFill(duration) ==
    IF duration = "whole" \/ duration = "half" THEN "none" ELSE noteColor

headPrims(noteData, l, w) ==
    <<[kind |-> "ellipse", role |-> "notehead",
       cx |-> center(w), cy |-> l.noteY, rx |-> 16, ry |-> 11,
       rotate |-> <<-15, center(w), l.noteY>>,
       fill |-> headFill(noteData.duration),
       stroke |-> noteColor, strokeWidth |-> 3]>>

hasStem(duration) == duration # "whole"

stemPrims(noteData, l) ==
    IF hasStem(noteData.duration)
    THEN <<[kind |-> "line", role |-> "stem",
            x1 |-> l.stemX, y1 |-> l.stemStartY,
            x2 |-> l.stemX, y2 |-> l.stemEndY,
            stroke |-> noteColor, strokeWidth |-> 3]>>
    ELSE <<>>

hasFlags(duration) ==
    duration # "whole" /\ duration # "half" /\ duration # "quarter"

\* <path d="M x y Q cx cy ex ey"/>
flagPath(mx, my, qx, qy, ex, ey) ==
    [kind |-> "path", role |-> "flag",
     d |-> [M |-> <<mx, my>>, Q |-> <<qx, qy>>, to |-> <<ex, ey>>],
     fill |-> "none", stroke |-> noteColor, strokeWidth |-> 4]

\* the second and third stem-up flags stacked away from the notehead
flagsUp_stackedOutward(duration, l) ==
    <<flagPath(l.stemX, l.stemEndY, l.stemX + 34, l.stemEndY + 25,
               l.stemX, l.stemEndY + 50)>>
    \o (IF duration = "sixteenth" \/ duration = "thirty-second"
        THEN <<flagPath(l.stemX, l.stemEndY - 15, l.stemX + 34, l.stemEndY + 10,
                        l.stemX, l.stemEndY + 35)>>
        ELSE <<>>)
    \o (IF duration = "thirty-second"
        THEN <<flagPath(l.stemX, l.stemEndY - 30, l.stemX + 34, l.stemEndY - 5,
                        l.stemX, l.stemEndY + 20)>>
        ELSE <<>>)

flagsUp(duration, l) ==
    <<flagPath(l.stemX, l.stemEndY, l.stemX + 34, l.stemEndY + 25,
               l.stemX, l.stemEndY + 50)>>
    \o (IF duration = "sixteenth" \/ duration = "thirty-second"
        THEN <<flagPath(l.stemX, l.stemEndY + 15, l.stemX + 34, l.stemEndY + 40,
                        l.stemX, l.stemEndY + 65)>>
        ELSE <<>>)
    \o (IF duration = "thirty-second"
        THEN <<flagPath(l.stemX, l.stemEndY + 30, l.stemX + 34, l.stemEndY + 55,
                        l.stemX, l.stemEndY + 80)>>
        ELSE <<>>)

\* the stem-down flags mirrored to the left of the stem
flagsDown_mirrored(duration, l) ==
    <<flagPath(l.stemX, l.stemEndY, l.stemX - 34, l.stemEndY - 25,
               l.stemX, l.stemEndY - 50)>>
    \o (IF duration = "sixteenth" \/ duration = "thirty-second"
        THEN <<flagPath(l.stemX, l.stemEndY - 15, l.stemX - 34, l.stemEndY - 40,
                        l.stemX, l.stemEndY - 65)>>
        ELSE <<>>)
    \o (IF duration = "thirty-second"
        THEN <<flagPath(l.stemX, l.stemEndY - 30, l.stemX - 34, l.stemEndY - 55,
                        l.stemX, l.stemEndY - 80)>>
        ELSE <<>>)

flagsDown(duration, l) ==
    <<flagPath(l.stemX, l.stemEndY, l.stemX + 34, l.stemEndY - 25,
               l.stemX, l.stemEndY - 50)>>
    \o (IF duration = "sixteenth" \/ duration = "thirty-second"
        THEN <<flagPath(l.stemX, l.stemEndY - 15, l.stemX + 34, l.stemEndY - 40,
                        l.stemX, l.stemEndY - 65)>>
        ELSE <<>>)
    \o (IF duration = "thirty-second"
        THEN <<flagPath(l.stemX, l.stemEndY - 30, l.stemX + 34, l.stemEndY - 55,
                        l.stemX, l.stemEndY - 80)>>
        ELSE <<>>)

flagPrims(noteData, l) ==
    IF hasFlags(noteData.duration)
    THEN (IF l.stemDirection = "up" THEN flagsUp(noteData.duration, l) ELSE <<>>)
         \o (IF l.stemDirection = "down" THEN flagsDown(noteData.duration, l) ELSE <<>>)
    ELSE <<>>

\* the locals of renderNote: NoLocals when the pattern rejects the pitch
renderNoteLocals(noteData, c, w) ==
    IF pitchMatches(noteData.pitch) THEN noteLocals(noteData, c, w) ELSE NoLocals

\* the primitives of renderNote: none (null) when the pattern rejects the pitch
renderNote(noteData, c, w) ==
    IF ~pitchMatches(noteData.pitch) THEN <<>>
    ELSE LET l == noteLocals(noteData, c, w)
         IN  ledgerPrims(l, w) \o headPrims(noteData, l, w)
             \o stemPrims(noteData, l) \o flagPrims(noteData, l)

-----------------------------------------------------------------------------
(* renderClef, renderSymbol *)

\* the clef of the request ignored: always the treble glyph
renderClef_trebleOnly(c) ==
    <<[kind |-> "text", role |-> "clef", x |-> 10, y |-> 165,
       fontSize |-> 90, content |-> "G_CLEF"]>>

renderClef(c) ==
    IF c = "treble"
    THEN <<[kind |-> "text", role |-> "clef", x |-> 10, y |-> 165,
            fontSize |-> 90, content |-> "G_CLEF"]>>
    ELSE <<[kind |-> "text", role |-> "clef", x |-> 10, y |-> 145,
            fontSize |-> 80, content |-> "F_CLEF"]>>

glyph(cx, y, size, content) ==
    [kind |-> "text", role |-> "symbol", x |-> cx, y |-> y,
     textAnchor |-> "middle", fontSize |-> size, content |-> content]

\* the <text> of a text-type symbol
textSymbol(centerX, value) ==
    [kind |-> "text", role |-> "symbol", x |-> centerX, y |-> 150,
     textAnchor |-> "middle", fontSize |-> 60, fontWeight |-> "bold",
     fontStyle |-> "italic", fontFamily |-> "serif", content |-> value]

\* the default case of the switch: <text x={centerX} y="160" textAnchor="middle">?</text>
placeholder(centerX) ==
    [kind |-> "text", role |-> "symbol", x |-> centerX, y |-> 160,
     textAnchor |-> "middle", content |-> "?"]

\* switch (symbolData.value)
shapePrims(value, centerX) ==
    CASE value = "sharp" -> <<glyph(centerX, 160, 100, "SHARP_SIGN")>>
           [] value = "flat" -> <<glyph(centerX, 160, 100, "FLAT_SIGN")>>
           [] value = "natural" -> <<glyph(centerX, 160, 100, "NATURAL_SIGN")>>
           [] value = "fermata" ->
                <<[kind |-> "path", role |-> "symbol",
                   translate |-> <<centerX - 30, 110>>,
                   d |-> [M |-> <<0, 30>>, Q |-> <<30, 0>>, to |-> <<60, 30>>],
                   stroke |-> "black", strokeWidth |-> 4, fill |-> "transparent"],
                  [kind |-> "circle", role |-> "symbol",
                   translate |-> <<centerX - 30, 110>>,
                   cx |-> 30, cy |-> 20, r |-> 4, fill |-> "black"]>>
           [] value = "treble_clef" -> <<glyph(centerX, 190, 150, "G_CLEF")>>
           [] value = "bass_clef" -> <<glyph(centerX, 170, 120, "F_CLEF")>>
           [] value = "repeat_start" ->
                <<[kind |-> "rect", role |-> "symbol",
                   translate |-> <<centerX - 20, 90>>,
                   x |-> 0, y |-> 0, width |-> 5, height |-> 100, fill |-> "black"],
                  [kind |-> "rect", role |-> "symbol",
                   translate |-> <<centerX - 20, 90>>,
                   x |-> 10, y |-> 0, width |-> 2, height |-> 100, fill |-> "black"],
                  [kind |-> "circle", role |-> "symbol",
                   translate |-> <<centerX - 20, 90>>,
                   cx |-> 20, cy |-> 40, r |-> 4, fill |-> "black"],
                  [kind |-> "circle", role |-> "symbol",
                   translate |-> <<centerX - 20, 90>>,
                   cx |-> 20, cy |-> 60, r |-> 4, fill |-> "black"]>>
           [] value = "tie" ->
                <<[kind |-> "path", role |-> "symbol",
                   translate |-> <<0, 0>>,
                   d |-> [M |-> <<centerX - 50, 130>>, Q |-> <<centerX, 170>>,
                          to |-> <<centerX + 50, 130>>],
                   stroke |-> "black", strokeWidth |-> 3, fill |-> "none"]>>
           [] value = "whole_rest" ->
                <<[kind |-> "rect", role |-> "symbol", translate |-> <<0, 0>>,
                   x |-> centerX - 10, y |-> 120, width |-> 20, height |-> 10,
                   fill |-> "black"]>>
           [] value = "half_rest" ->
                <<[kind |-> "rect", role |-> "symbol", translate |-> <<0, 0>>,
                   x |-> centerX - 10, y |-> 130, width |-> 20, height |-> 10,
                   fill |-> "black"]>>
           [] value = "quarter_rest" ->
                <<glyph(centerX, 170, 120, "QUARTER_REST")>>
           [] value = "eighth_rest" ->
                <<glyph(centerX, 160, 100, "EIGHTH_REST")>>
           [] OTHER -> <<placeholder(centerX)>>

\* the 'tie' case missing from the switch
renderSymbol_tieMissing(symbolData, w) ==
    IF symbolData.type = "text"
    THEN <<textSymbol(center(w), symbolData.value)>>
    ELSE IF symbolData.value = "tie"
         THEN <<placeholder(center(w))>>
         ELSE shapePrims(symbolData.value, center(w))

\* the switch consulted before the type: catalog names shadow literal text
renderSymbol_switchFirst(symbolData, w) ==
    IF symbolData.type = "text" /\ symbolData.value \notin
          {"sharp", "flat", "natural", "fermata", "treble_clef", "bass_clef",
           "repeat_start", "tie", "whole_rest", "half_rest", "quarter_rest",
           "eighth_rest"}
    THEN <<textSymbol(center(w), symbolData.value)>>
    ELSE shapePrims(symbolData.value, center(w))

renderSymbol(symbolData, w) ==
    LET centerX == center(w) IN
    IF symbolData.type = "text"
    THEN <<textSymbol(centerX, symbolData.value)>>
    ELSE shapePrims(symbolData.value, centerX)

-----------------------------------------------------------------------------
(* the component's returned SVG *)

\* staff lines under every symbol
isSymbolWithStaff_anySymbol(d) == "symbol" \in DOMAIN d

isSymbolWithStaff(d) ==
    /\ "symbol" \in DOMAIN d
    /\ d.symbol.value \in {"whole_rest", "half_rest", "quarter_rest", "eighth_rest"}

staffLinePrims(w) ==
    [i \in 1..5 |->
        [kind |-> "line", role |-> "staff", x1 |-> 10, y1 |-> staffLines[i],
         x2 |-> w - 10, y2 |-> staffLines[i], stroke |-> "#333", strokeWidth |-> 2]]

\* content emitted before the staff lines and the clef
Staff_contentFirst(d, w) ==
    LET c == clefOf(d) IN
    (IF "note" \in DOMAIN d THEN renderNote(d.note, c, w) ELSE <<>>)
    \o (IF "symbol" \in DOMAIN d THEN renderSymbol(d.symbol, w) ELSE <<>>)
    \o (IF "note" \in DOMAIN d THEN renderClef(c) ELSE <<>>)
    \o (IF "note" \in DOMAIN d \/ isSymbolWithStaff(d) THEN staffLinePrims(w) ELSE <<>>)

Staff(d, w) ==
    LET c == clefOf(d) IN
    (IF "note" \in DOMAIN d \/ isSymbolWithStaff(d) THEN staffLinePrims(w) ELSE <<>>)
    \o (IF "note" \in DOMAIN d THEN renderClef(c) ELSE <<>>)
    \o (IF "note" \in DOMAIN d THEN renderNote(d.note, c, w) ELSE <<>>)
    \o (IF "symbol" \in DOMAIN d THEN renderSymbol(d.symbol, w) ELSE <<>>)

StaffLocals(d, w) ==
    IF "note" \in DOMAIN d THEN renderNoteLocals(d.note, clefOf(d), w) ELSE NoLocals

-----------------------------------------------------------------------------
(* The inputs the collaborators hand to the engine *)

Durations == {"whole", "half", "quarter", "eighth", "sixteenth", "thirty-second"}

ValidPitches == {<<l, d>> : l \in Letters, d \in Digits}

\* pitch strings the pattern /^([A-G])(\d)$/ rejects
MalformedPitches ==
    {<<>>, <<"C">>, <<"4">>, <<"c", "4">>, <<"H", "4">>, <<"4", "C">>,
     <<"C", "1", "0">>, <<"C", "-", "1">>, <<"C", "4", " ">>, <<"C", "#">>,
     <<"C", "#", "4">>, <<"Z", "9">>, <<" ", "C", "4">>}

Pitches == ValidPitches \cup MalformedPitches

Notes == [pitch : Pitches, duration : Durations]

\* the notes used together with a symbol in one request
SampleNotes == [pitch : {<<"B", "4">>, <<"C", "4">>, <<"c", "4">>},
                duration : {"whole", "eighth"}]

Clefs == {"treble", "bass"}

Catalog ==
    {"sharp", "flat", "natural", "fermata", "treble_clef", "bass_clef",
     "repeat_start", "tie", "whole_rest", "half_rest", "quarter_rest", "eighth_rest"}

Dynamics == {"ff", "pp", "mf", "mp", "f", "p", "cresc.", "dim."}

SymbolValues == Catalog \cup Dynamics \cup {"segno", "", "?"}

Symbols == [type : {"text", "shape"}, value : SymbolValues]

Requests ==
    {[note |-> n] : n \in Notes}
    \cup {[clef |-> c, note |-> n] : c \in Clefs, n \in Notes}
    \cup {[symbol |-> s] : s \in Symbols}
    \cup {[clef |-> c, symbol |-> s] : c \in Clefs, s \in Symbols}
    \cup {[note |-> n, symbol |-> s] : n \in SampleNotes, s \in Symbols}
    \cup {[clef |-> c, note |-> n, symbol |-> s] :
            c \in Clefs, n \in SampleNotes, s \in Symbols}
    \cup {<<>>} \cup {[clef |-> c] : c \in Clefs}

\* the widths App.tsx passes: the default and the reference list's
Widths == {300, 130}

PitchNames == Letters \cup LowerLetters
Octaves == (4 - OctaveSpan)..(4 + OctaveSpan)

NoData == <<>>
NoArgs == [called |-> FALSE]
NoRet == [returned |-> FALSE]
IdleStaff == [pc |-> "idle", data |-> NoData, width |-> 300, scene |-> <<>>]

null == "null"

\* localStorage.getItem(STORAGE_KEY) === null
NoItem == [item |-> null]

\* no generateQuiz call in progress
IdleGen == [pc |-> "idle"]

\* useState<GameState>({ status: 'menu', currentQuestionIndex: 0, score: 0, questions: [], history: [] })
InitialGameState ==
    [status |-> "menu", currentQuestionIndex |-> 0, score |-> 0,
     questions |-> <<>>, history |-> <<>>]

-----------------------------------------------------------------------------
(* The state machine *)

Init ==
    /\ pc = "idle"
    /\ data = NoData
    /\ width = 300
    /\ locals = NoLocals
    /\ scene = <<>>
    /\ args = NoArgs
    /\ ret = NoRet
    /\ staffs = [i \in 1..NumStaffs |-> IdleStaff]
    /\ frames = [i \in 1..NumStaffs |-> NoLocals]
    /\ gameState = InitialGameState
    /\ selectedOption = null
    /\ feedback = null
    /\ timers = <<>>
    /\ games = 0
    /\ lastCall = [kind |-> "none"]
    /\ quizGen = IdleGen
    /\ localStorage = NoItem
    /\ today = 1
    /\ loaded = [op |-> "none"]

\* <Staff data={d} width={w} />: the host instantiates the component
Mount ==
    /\ pc = "idle"
    /\ \E d \in Requests, w \in Widths :
          /\ data' = d
          /\ width' = w
    /\ pc' = "mounted"
    /\ UNCHANGED <<locals, scene, args, ret, staffs, frames, appVars, serviceVars>>

\* the body of the Staff function component
Render ==
    /\ pc = "mounted"
    /\ locals' = StaffLocals(data, width)
    /\ scene' = Staff(data, width)
    /\ pc' = "rendered"
    /\ UNCHANGED <<data, width, args, ret, staffs, frames, appVars, serviceVars>>

\* the host discards the component and its scene
Unmount ==
    /\ pc = "rendered"
    /\ pc' = "idle"
    /\ data' = NoData
    /\ width' = 300
    /\ locals' = NoLocals
    /\ scene' = <<>>
    /\ UNCHANGED <<args, ret, staffs, frames, appVars, serviceVars>>

\* a direct call of the exported getNoteStepsFromC4
Call ==
    /\ pc = "idle"
    /\ \E n \in PitchNames, o \in Octaves :
          args' = [called |-> TRUE, pitchName |-> n, octave |-> o]
    /\ pc' = "call"
    /\ UNCHANGED <<data, width, locals, scene, ret, staffs, frames, appVars, serviceVars>>

Return ==
    /\ pc = "call"
    /\ ret' = [returned |-> TRUE,
               value |-> getNoteStepsFromC4(args.pitchName, args.octave)]
    /\ pc' = "returned"
    /\ UNCHANGED <<data, width, locals, scene, args, staffs, frames, appVars, serviceVars>>

Discard ==
    /\ pc = "returned"
    /\ pc' = "idle"
    /\ args' = NoArgs
    /\ ret' = NoRet
    /\ UNCHANGED <<data, width, locals, scene, staffs, frames, appVars, serviceVars>>

Next == Mount \/ Render \/ Unmount \/ Call \/ Return \/ Discard

Spec == Init /\ [][Next]_vars

-----------------------------------------------------------------------------
(* Several Staff components on one screen, their renders interleaved *)

\* what the screens of App.tsx show side by side
ScreenRequests ==
    {[note |-> [pitch |-> <<"C", "4">>, duration |-> "eighth"]],
     [note |-> [pitch |-> <<"A", "5">>, duration |-> "quarter"]],
     [clef |-> "bass", note |-> [pitch |-> <<"C", "4">>, duration |-> "sixteenth"]],
     [clef |-> "bass", note |-> [pitch |-> <<"E", "2">>, duration |-> "half"]],
     [note |-> [pitch |-> <<"c", "4">>, duration |-> "whole"]],
     [symbol |-> [type |-> "shape", value |-> "whole_rest"]],
     [symbol |-> [type |-> "text", value |-> "ff"]]}

\* every call of renderNote allocates its own constants and its own
\* ledgerLines array
frameOf_shared(i) == 1

frameOf(i) == i

\* the JSX the component returns, reading the locals of frame l
emit(d, w, l) ==
    LET c == clefOf(d) IN
    (IF "note" \in DOMAIN d \/ isSymbolWithStaff(d) THEN staffLinePrims(w) ELSE <<>>)
    \o (IF "note" \in DOMAIN d THEN renderClef(c) ELSE <<>>)
    \o (IF "note" \in DOMAIN d /\ l.matched
        THEN ledgerPrims(l, w) \o headPrims(d.note, l, w)
             \o stemPrims(d.note, l) \o flagPrims(d.note, l)
        ELSE <<>>)
    \o (IF "symbol" \in DOMAIN d THEN renderSymbol(d.symbol, w) ELSE <<>>)

MountAt(i) ==
    /\ staffs[i].pc = "idle"
    /\ \E d \in ScreenRequests, w \in Widths :
          staffs' = [staffs EXCEPT ![i] = [pc |-> "mounted", data |-> d,
                                           width |-> w, scene |-> <<>>]]
    /\ UNCHANGED <<pc, data, width, locals, scene, args, ret, frames, appVars, serviceVars>>

\* renderNote up to its return statement: the constants and the ledger loop
ComputeAt(i) ==
    /\ staffs[i].pc = "mounted"
    /\ frames' = [frames EXCEPT ![frameOf(i)] =
                     StaffLocals(staffs[i].data, staffs[i].width)]
    /\ staffs' = [staffs EXCEPT ![i].pc = "computed"]
    /\ UNCHANGED <<pc, data, width, locals, scene, args, ret, appVars, serviceVars>>

\* the return statements of renderNote and of the component
EmitAt(i) ==
    /\ staffs[i].pc = "computed"
    /\ staffs' = [staffs EXCEPT
                     ![i].pc = "rendered",
                     ![i].scene = emit(staffs[i].data, staffs[i].width,
                                       frames[frameOf(i)])]
    /\ UNCHANGED <<pc, data, width, locals, scene, args, ret, frames, appVars, serviceVars>>

UnmountAt(i) ==
    /\ staffs[i].pc = "rendered"
    /\ staffs' = [staffs EXCEPT ![i] = IdleStaff]
    /\ frames' = [frames EXCEPT ![frameOf(i)] = NoLocals]
    /\ UNCHANGED <<pc, data, width, locals, scene, args, ret, appVars, serviceVars>>

ScreenNext ==
    \E i \in 1..NumStaffs : MountAt(i) \/ ComputeAt(i) \/ EmitAt(i) \/ UnmountAt(i)

ScreenSpec == Init /\ [][ScreenNext]_vars

-----------------------------------------------------------------------------
(* Reading a scene *)

ByRole(sc, r) == SelectSeq(sc, LAMBDA prim : prim.role = r)

\* a note request whose pitch the pattern accepted has been rendered
NoteRendered == pc = "rendered" /\ locals.matched

\* the steps the one-digit octaves of the pattern can produce
ReachableSteps == {getNoteStepsFromC4(p[1], parseInt(p[2])) : p \in ValidPitches}

-----------------------------------------------------------------------------
(* Pitch arithmetic *)

LetterOrder(l) ==
    CASE l = "C" -> 0 [] l = "D" -> 1 [] l = "E" -> 2 [] l = "F" -> 3
      [] l = "G" -> 4 [] l = "A" -> 5 [] l = "B" -> 6

KeyBelow(l1, o1, l2, o2) ==
    o1 < o2 \/ (o1 = o2 /\ LetterOrder(l1) < LetterOrder(l2))

\* C1: for every letter C..B and octave, getNoteStepsFromC4 returns
\* base(letter) + (octave - 4) * 7 with C=0 .. B=6; (C,4) gives 0; and the
\* result is strictly increasing in the (octave, letter-order) key.
C1_StepsFromReference ==
    (pc = "returned" /\ args.pitchName \in Letters) =>
        /\ ret.value = LetterOrder(args.pitchName) + (args.octave - 4) * 7
        /\ (args.pitchName = "C" /\ args.octave = 4) => ret.value = 0
        /\ \A l \in Letters, o \in Octaves :
              KeyBelow(l, o, args.pitchName, args.octave)
                  => getNoteStepsFromC4(l, o) < ret.value

C1_Witness ==
    /\ pc = "returned"
    /\ args.pitchName = "B" /\ args.octave = 3
    /\ ret.value = -1

-----------------------------------------------------------------------------
(* Staff geometry *)

\* C2: per clef, noteY is an affine function of the step, falling by 10 units
\* per step for both clefs (so strictly decreasing), and it depends on
\* (step, clef) alone.
C2_NoteYAffine ==
    NoteRendered =>
        /\ \A s \in ReachableSteps :
              /\ noteY(s, clefOf(data)) = locals.noteY - 10 * (s - locals.stepsFromC4)
              /\ s > locals.stepsFromC4 => noteY(s, clefOf(data)) < locals.noteY
        /\ ByRole(scene, "notehead")[1].cy = locals.noteY

C2_Witness ==
    /\ NoteRendered
    /\ clefOf(data) = "bass"
    /\ locals.stepsFromC4 = -5
    /\ locals.noteY = 130

\* C3: noteY(s, bass) = noteY(s + 12, treble) for every step; treble step 2
\* (E4) and bass step -10 (G2) land on the bottom staff line, y = 180.
C3_ClefOffset ==
    NoteRendered =>
        /\ clefOf(data) = "bass"
              => locals.noteY = noteY(locals.stepsFromC4 + 12, "treble")
        /\ clefOf(data) = "treble"
              => locals.noteY = noteY(locals.stepsFromC4 - 12, "bass")
        /\ (\/ clefOf(data) = "treble" /\ locals.stepsFromC4 = 2
            \/ clefOf(data) = "bass" /\ locals.stepsFromC4 = -10)
              => /\ locals.noteY = 180
                 /\ ByRole(scene, "notehead")[1].cy = ByRole(scene, "staff")[5].y1

C3_Witness ==
    /\ NoteRendered
    /\ clefOf(data) = "bass"
    /\ data.note.pitch = <<"G", "2">>
    /\ locals.stepsFromC4 = -10
    /\ ByRole(scene, "notehead")[1].cy = 180

\* the positions one line spacing apart, from one spacing beyond the nearest
\* staff boundary outward up to and including ny
ExpectedLedger(ny) ==
    IF ny > 180 THEN {y \in 181..ny : (y - 180) % 20 = 0}
    ELSE IF ny < 100 THEN {y \in ny..99 : (100 - y) % 20 = 0}
    ELSE {}

\* C4: the ledger lines are exactly the positions 20 units apart from one
\* spacing beyond the nearest staff boundary out to noteY, on the notehead's
\* side; none when the notehead is within or on the staff; exactly one, at
\* noteY, when the notehead is one line spacing beyond a boundary.
C4_LedgerLines ==
    NoteRendered =>
        LET drawn == ByRole(scene, "ledger")
            ys == {drawn[i].y1 : i \in DOMAIN drawn}
        IN  /\ ys = ExpectedLedger(locals.noteY)
            /\ Len(drawn) = Cardinality(ys)
            /\ \A i \in DOMAIN drawn : drawn[i].y2 = drawn[i].y1
            /\ (locals.noteY >= 100 /\ locals.noteY <= 180) => Len(drawn) = 0
            /\ (locals.noteY = 200 \/ locals.noteY = 80)
                  => (Len(drawn) = 1 /\ drawn[1].y1 = locals.noteY)
            /\ locals.noteY > 180 => \A y \in ys : y > 180 /\ y <= locals.noteY
            /\ locals.noteY < 100 => \A y \in ys : y < 100 /\ y >= locals.noteY

C4_Witness ==
    /\ NoteRendered
    /\ clefOf(data) = "treble"
    /\ data.note.pitch = <<"C", "4">>
    /\ Len(ByRole(scene, "ledger")) = 1
    /\ ByRole(scene, "ledger")[1].y1 = 200

\* C5 as stated: whenever the notehead lies outside the staff block (above the
\* top line or below the bottom line), at least one ledger line is generated.
C5_LedgerWheneverOutside ==
    (NoteRendered /\ (locals.noteY < 100 \/ locals.noteY > 180))
        => Len(ByRole(scene, "ledger")) >= 1

\* C5 amended: at least one ledger line whenever the notehead is a full line
\* spacing or more beyond the top or bottom line; a notehead in the space
\* directly above or below the staff gets none.
C5_LedgerFromOneSpacing ==
    NoteRendered =>
        /\ (locals.noteY <= 100 - 20 \/ locals.noteY >= 180 + 20)
              => Len(ByRole(scene, "ledger")) >= 1
        /\ (locals.noteY = 90 \/ locals.noteY = 190)
              => Len(ByRole(scene, "ledger")) = 0

C5_Witness ==
    /\ NoteRendered
    /\ locals.noteY = 80
    /\ Len(ByRole(scene, "ledger")) = 1

-----------------------------------------------------------------------------
(* Note glyph *)

Pivot(c) == IF c = "treble" THEN 6 ELSE -6

\* C6: the stem direction is "down" if step >= pivot(clef) and "up" otherwise,
\* with pivot(treble) = 6 (B4) and pivot(bass) = -6 (D3); treble B4 stems
\* down, treble A4 stems up.
C6_StemDirection ==
    NoteRendered =>
        /\ locals.stemDirection =
              (IF locals.stepsFromC4 >= Pivot(clefOf(data)) THEN "down" ELSE "up")
        /\ (clefOf(data) = "treble" /\ data.note.pitch = <<"B", "4">>)
              => locals.stemDirection = "down"
        /\ (clefOf(data) = "treble" /\ data.note.pitch = <<"A", "4">>)
              => locals.stemDirection = "up"
        /\ (clefOf(data) = "bass" /\ data.note.pitch = <<"D", "3">>)
              => locals.stemDirection = "down"

C6_Witness ==
    /\ NoteRendered
    /\ clefOf(data) = "treble"
    /\ data.note.pitch = <<"B", "4">>
    /\ locals.stepsFromC4 = 6
    /\ locals.stemDirection = "down"

\* C7: for each clef the pivot step's notehead sits on the middle (third)
\* staff line, y = 140; so a note stems down exactly when its notehead is on
\* or above the middle line.
C7_PivotOnMiddleLine ==
    NoteRendered =>
        /\ noteY(locals.centerStep, clefOf(data)) = 140
        /\ ByRole(scene, "staff")[3].y1 = 140
        /\ locals.stemDirection = "down" <=> locals.noteY <= 140

C7_Witness ==
    /\ NoteRendered
    /\ clefOf(data) = "bass"
    /\ locals.stepsFromC4 = locals.centerStep
    /\ locals.noteY = 140
    /\ locals.stemDirection = "down"

\* what a duration is to look like: <<notehead filled, stem present, flags>>
DurationTable(duration) ==
    CASE duration = "whole" -> <<FALSE, FALSE, 0>>
      [] duration = "half" -> <<FALSE, TRUE, 0>>
      [] duration = "quarter" -> <<TRUE, TRUE, 0>>
      [] duration = "eighth" -> <<TRUE, TRUE, 1>>
      [] duration = "sixteenth" -> <<TRUE, TRUE, 2>>
      [] duration = "thirty-second" -> <<TRUE, TRUE, 3>>

\* C8: the duration alone determines notehead fill, stem presence and flag
\* count, whatever the pitch, clef and stem direction: whole = hollow, no
\* stem, 0 flags; half = hollow, stem, 0; quarter = filled, stem, 0;
\* eighth = filled, stem, 1; sixteenth = 2 flags; thirty-second = 3 flags.
C8_DurationGlyph ==
    NoteRendered =>
        LET want == DurationTable(data.note.duration)
            heads == ByRole(scene, "notehead")
        IN  /\ Len(heads) = 1
            /\ heads[1].fill = (IF want[1] THEN "black" ELSE "none")
            /\ Len(ByRole(scene, "stem")) = (IF want[2] THEN 1 ELSE 0)
            /\ Len(ByRole(scene, "flag")) = want[3]

C8_Witness ==
    /\ NoteRendered
    /\ data.note.duration = "thirty-second"
    /\ clefOf(data) = "bass"
    /\ locals.stemDirection = "down"
    /\ Len(ByRole(scene, "flag")) = 3
    /\ Len(ByRole(scene, "stem")) = 1

\* C9: for every non-whole note the stem is a vertical segment at
\* centre + 14 from noteY - 5 to noteY - 65 when the direction is "up", and
\* at centre - 14 from noteY + 5 to noteY + 65 when it is "down".
C9_StemGeometry ==
    (NoteRendered /\ data.note.duration # "whole") =>
        LET stems == ByRole(scene, "stem")
            head == ByRole(scene, "notehead")[1]
        IN  /\ Len(stems) = 1
            /\ stems[1].x1 = stems[1].x2
            /\ head.cy = locals.noteY
            /\ IF locals.stemDirection = "up"
               THEN /\ stems[1].x1 = head.cx + 14
                    /\ stems[1].y1 = head.cy - 5
                    /\ stems[1].y2 = head.cy - 65
               ELSE /\ stems[1].x1 = head.cx - 14
                    /\ stems[1].y1 = head.cy + 5
                    /\ stems[1].y2 = head.cy + 65

C9_Witness ==
    /\ NoteRendered
    /\ width = 130
    /\ data.note.duration = "half"
    /\ locals.stemDirection = "down"
    /\ ByRole(scene, "stem")[1].x1 = 51
    /\ ByRole(scene, "stem")[1].y2 = locals.noteY + 65

Flagged == NoteRendered /\ data.note.duration \in {"eighth", "sixteenth", "thirty-second"}

\* C10 as stated: each flag curves away from the stem on the side the stem is
\* offset to: right of the stem when the stem is up, left of it when down.
C10_FlagsOnStemSide ==
    Flagged =>
        LET flags == ByRole(scene, "flag")
            stem == ByRole(scene, "stem")[1]
        IN  \A i \in DOMAIN flags :
               IF stem.x1 > ByRole(scene, "notehead")[1].cx
               THEN flags[i].d.Q[1] > stem.x1
               ELSE flags[i].d.Q[1] < stem.x1

\* C10 amended: for both stem directions each flag starts and ends on the
\* stem and bulges 34 units to the right of it; only its vertical sense
\* follows the stem direction (from the stem's free end toward the notehead).
C10_FlagsRightOfStem ==
    Flagged =>
        LET flags == ByRole(scene, "flag")
            stem == ByRole(scene, "stem")[1]
        IN  /\ Len(flags) >= 1
            /\ \A i \in DOMAIN flags :
                  /\ flags[i].d.M[1] = stem.x1
                  /\ flags[i].d.to[1] = stem.x1
                  /\ flags[i].d.Q[1] = stem.x1 + 34
                  /\ IF locals.stemDirection = "up"
                     THEN flags[i].d.M[2] < flags[i].d.Q[2]
                          /\ flags[i].d.Q[2] < flags[i].d.to[2]
                     ELSE flags[i].d.M[2] > flags[i].d.Q[2]
                          /\ flags[i].d.Q[2] > flags[i].d.to[2]

C10_Witness ==
    /\ Flagged
    /\ locals.stemDirection = "down"
    /\ ByRole(scene, "stem")[1].x1 < ByRole(scene, "notehead")[1].cx
    /\ ByRole(scene, "flag")[1].d.Q[1] > ByRole(scene, "stem")[1].x1

\* |a - b|
Dist(a, b) == IF a >= b THEN a - b ELSE b - a

\* C11: with n flags (n in 1..3), flag k (k = 0..n-1) starts on the stem at
\* distance 15*k from the stem's free end, toward the notehead; the starting
\* points are pairwise distinct and lie within the stem's extent, for both
\* stem directions.
C11_FlagStacking ==
    Flagged =>
        LET flags == ByRole(scene, "flag")
            stem == ByRole(scene, "stem")[1]
            free == stem.y2
            foot == stem.y1
        IN  /\ Len(flags) \in 1..3
            /\ \A i \in DOMAIN flags :
                  /\ flags[i].d.M[1] = stem.x1
                  /\ Dist(flags[i].d.M[2], free) = 15 * (i - 1)
                  /\ Dist(flags[i].d.M[2], foot) = Dist(free, foot) - 15 * (i - 1)
                  /\ Dist(flags[i].d.M[2], foot) >= 0
            /\ \A i, j \in DOMAIN flags :
                  i # j => flags[i].d.M # flags[j].d.M

C11_Witness ==
    /\ Flagged
    /\ data.note.duration = "thirty-second"
    /\ locals.stemDirection = "up"
    /\ ByRole(scene, "flag")[3].d.M[2] = ByRole(scene, "stem")[1].y2 + 30

-----------------------------------------------------------------------------
(* Staff composition *)

Rendered == pc = "rendered"

HasNote == "note" \in DOMAIN data
HasSymbol == "symbol" \in DOMAIN data

RestValues == {"whole_rest", "half_rest", "quarter_rest", "eighth_rest"}

\* the request's symbol is drawn as one of the four rest glyphs
RendersAsRest ==
    /\ HasSymbol
    /\ data.symbol.type = "shape"
    /\ data.symbol.value \in RestValues

\* C12: staff lines are in the scene iff the request has a note or its symbol
\* renders as one of the four rest glyphs; every other request, text-type
\* symbols included, has none; a whole_rest request yields a filled rectangle
\* inside the staff block together with the five staff lines.
C12_StaffLinesIffNoteOrRest ==
    Rendered =>
        LET lines == ByRole(scene, "staff")
            content == ByRole(scene, "symbol")
        IN  /\ Len(lines) \in {0, 5}
            /\ Len(lines) = 5 <=> (HasNote \/ RendersAsRest)
            /\ (HasSymbol /\ data.symbol.type = "text" /\ ~HasNote) => Len(lines) = 0
            /\ (RendersAsRest /\ data.symbol.value = "whole_rest")
                  => /\ Len(lines) = 5
                     /\ Len(content) = 1
                     /\ content[1].kind = "rect" /\ content[1].fill = "black"
                     /\ content[1].y >= lines[1].y1
                     /\ content[1].y + content[1].height <= lines[5].y1

IsClefGlyph(prim) == prim.kind = "text" /\ prim.content \in {"G_CLEF", "F_CLEF"}

\* C13: the context clef glyph is drawn iff the request has a note: the bass
\* glyph when clef = bass, the treble glyph when clef = treble or absent; a
\* symbol request shows a clef only when its value is treble_clef or bass_clef.
C13_ContextClef ==
    Rendered =>
        LET clefs == ByRole(scene, "clef")
        IN  /\ Len(clefs) = (IF HasNote THEN 1 ELSE 0)
            /\ HasNote =>
                  clefs[1].content =
                     (IF "clef" \in DOMAIN data /\ data.clef = "bass"
                      THEN "F_CLEF" ELSE "G_CLEF")
            /\ (~HasNote /\ \E i \in DOMAIN scene : IsClefGlyph(scene[i]))
                  => /\ HasSymbol
                     /\ data.symbol.type = "shape"
                     /\ data.symbol.value \in {"treble_clef", "bass_clef"}

C13_Witness ==
    /\ Rendered
    /\ HasNote
    /\ "clef" \in DOMAIN data /\ data.clef = "bass"
    /\ ByRole(scene, "clef")[1].content = "F_CLEF"

-----------------------------------------------------------------------------
(* Symbol catalog *)

Declared ==
    {"sharp", "flat", "natural", "fermata", "treble_clef", "bass_clef",
     "repeat_start", "tie", "whole_rest", "half_rest", "quarter_rest", "eighth_rest"}

\* the '?' glyph of the switch's default case, at the canvas centre
IsPlaceholder(prim) ==
    /\ prim.kind = "text"
    /\ prim.content = "?"
    /\ prim.y = 160
    /\ "fontSize" \notin DOMAIN prim

\* C14: for a shape symbol each of the 12 declared catalog values yields a
\* non-empty bundle that is not the placeholder, and every other value yields
\* exactly the '?' placeholder glyph; the render completes for every value.
C14_ShapeLookupTotal ==
    (Rendered /\ HasSymbol /\ data.symbol.type = "shape") =>
        LET bundle == ByRole(scene, "symbol")
        IN  IF data.symbol.value \in Declared
            THEN /\ Len(bundle) >= 1
                 /\ \A i \in DOMAIN bundle : ~IsPlaceholder(bundle[i])
            ELSE /\ Len(bundle) = 1
                 /\ IsPlaceholder(bundle[1])
                 /\ bundle[1].x = width \div 2

C14_Witness ==
    /\ Rendered
    /\ HasSymbol /\ ~HasNote
    /\ data.symbol = [type |-> "shape", value |-> "segno"]
    /\ Len(scene) = 1
    /\ IsPlaceholder(scene[1])

\* C15: a text-type symbol renders as exactly one centred text primitive
\* carrying the literal value, whatever the value (catalog names included),
\* and never as the placeholder.
C15_TextLiteral ==
    (Rendered /\ HasSymbol /\ data.symbol.type = "text") =>
        LET bundle == ByRole(scene, "symbol")
        IN  /\ Len(bundle) = 1
            /\ bundle[1].kind = "text"
            /\ bundle[1].content = data.symbol.value
            /\ bundle[1].textAnchor = "middle"
            /\ bundle[1].x = width \div 2
            /\ ~IsPlaceholder(bundle[1])

C15_Witness ==
    /\ Rendered
    /\ HasSymbol
    /\ data.symbol = [type |-> "text", value |-> "sharp"]
    /\ ByRole(scene, "symbol")[1].content = "sharp"

-----------------------------------------------------------------------------
(* Degraded requests *)

NoteRoles == {"ledger", "notehead", "stem", "flag"}

NotePrims(sc) == SelectSeq(sc, LAMBDA prim : prim.role \in NoteRoles)

\* exactly one letter A-G followed by exactly one decimal digit
WellFormed(p) ==
    /\ Len(p) = 2
    /\ p[1] \in {"A", "B", "C", "D", "E", "F", "G"}
    /\ p[2] \in {"0", "1", "2", "3", "4", "5", "6", "7", "8", "9"}

\* C16: a note request yields note primitives (ledger lines, notehead, stem,
\* flags) iff its pitch string is one letter A-G followed by one decimal
\* digit; for every other pitch string the note composer emits nothing and
\* the render completes without touching the pitch arithmetic.
C16_PitchPattern ==
    (Rendered /\ HasNote) =>
        /\ Len(NotePrims(scene)) >= 1 <=> WellFormed(data.note.pitch)
        /\ WellFormed(data.note.pitch)
              => (locals.matched /\ Len(ByRole(scene, "notehead")) = 1)
        /\ ~WellFormed(data.note.pitch)
              => (NotePrims(scene) = <<>> /\ locals = [matched |-> FALSE])

C16_Witness ==
    /\ Rendered
    /\ HasNote /\ ~HasSymbol
    /\ data.note.pitch = <<"c", "4">>
    /\ NotePrims(scene) = <<>>
    /\ Len(scene) = 6


MalformedNote == HasNote /\ ~WellFormed(data.note.pitch)

UnrecognizedSymbol ==
    HasSymbol /\ data.symbol.type = "shape" /\ data.symbol.value \notin Declared

\* C17 as stated: for a request whose rendering fails (a note with a
\* malformed pitch, a symbol with an unrecognized value) the scene is either
\* the placeholder glyph or empty, with no primitives at all.
C17_PlaceholderOrEmpty ==
    (Rendered /\ (\/ MalformedNote /\ ~HasSymbol
                  \/ UnrecognizedSymbol /\ ~HasNote))
        => (scene = <<>> \/ (Len(scene) = 1 /\ IsPlaceholder(scene[1])))

\* C17 amended: a malformed-pitch note leaves no note primitives in the
\* scene, but the five staff lines and the context clef are still drawn; an
\* unrecognized shape value is drawn as exactly the placeholder, which is the
\* whole scene when the request has no note; the render always completes.
C17_DegradedScene ==
    Rendered =>
        /\ MalformedNote
              => /\ NotePrims(scene) = <<>>
                 /\ Len(ByRole(scene, "staff")) = 5
                 /\ Len(ByRole(scene, "clef")) = 1
                 /\ Len(scene) = 6 + Len(ByRole(scene, "symbol"))
        /\ UnrecognizedSymbol
              => /\ Len(ByRole(scene, "symbol")) = 1
                 /\ IsPlaceholder(ByRole(scene, "symbol")[1])
        /\ (UnrecognizedSymbol /\ ~HasNote) => Len(scene) = 1
        /\ (MalformedNote /\ ~HasSymbol) => Len(scene) = 6

C17_Witness ==
    /\ Rendered
    /\ MalformedNote /\ ~HasSymbol
    /\ data.note.pitch = <<"H", "4">>
    /\ clefOf(data) = "bass"
    /\ Len(scene) = 6
    /\ scene[5].role = "staff"
    /\ scene[6].content = "F_CLEF"


(***************************************************************************)
(* Draw order                                                              *)
(***************************************************************************)
MustPrecede(a, b) ==
    \/ a = "staff" /\ b # "staff"
    \/ a = "clef" /\ b \notin {"staff", "clef"}
    \/ a = "ledger" /\ b \in {"notehead", "stem", "flag"}

\* C18: in every scene the primitives are ordered back to front: all staff
\* lines come before the clef glyph, which comes before all note or symbol
\* content, and within note content the ledger lines come before the
\* notehead, the stem and the flags.
C18_BackToFront ==
    Rendered =>
        \A i, j \in 1..Len(scene) :
            MustPrecede(scene[i].role, scene[j].role) => i < j

C18_Witness ==
    /\ Rendered /\ HasNote /\ ~HasSymbol
    /\ data.note = [pitch |-> <<"C", "4">>, duration |-> "eighth"]
    /\ clefOf(data) = "treble"
    /\ Len(scene) = 10
    /\ \A i \in 1..5 : scene[i].role = "staff"
    /\ scene[6].role = "clef"
    /\ scene[7].role = "ledger"
    /\ scene[8].role = "notehead"
    /\ scene[9].role = "stem"
    /\ scene[10].role = "flag"


(***************************************************************************)
(* Independence of renders                                                 *)
(***************************************************************************)
RenderedAt(i) == staffs[i].pc = "rendered"

\* C19: the scene is a function of the request and the canvas width alone:
\* however the renders of the components of one screen interleave, every
\* rendered component shows the scene Staff gives for its own props, two
\* components with the same props show identical scenes, and a component
\* that has not rendered shows nothing.
C19_SceneFunctionOfRequest ==
    /\ \A i \in 1..NumStaffs :
          IF RenderedAt(i)
          THEN staffs[i].scene = Staff(staffs[i].data, staffs[i].width)
          ELSE staffs[i].scene = <<>>
    /\ \A i, j \in 1..NumStaffs :
          (/\ RenderedAt(i) /\ RenderedAt(j)
           /\ staffs[i].data = staffs[j].data
           /\ staffs[i].width = staffs[j].width)
              => staffs[i].scene = staffs[j].scene

C19_Witness ==
    /\ RenderedAt(1) /\ RenderedAt(2)
    /\ staffs[1].data = [note |-> [pitch |-> <<"C", "4">>, duration |-> "eighth"]]
    /\ staffs[2].data = [note |-> [pitch |-> <<"A", "5">>, duration |-> "quarter"]]
    /\ staffs[1].width = 130 /\ staffs[2].width = 130
    /\ Len(staffs[1].scene) = 10
    /\ Len(staffs[2].scene) = 9
    /\ frames[1].ledgerLines = <<200>>
    /\ frames[2].ledgerLines = <<80>>


(***************************************************************************)
(* The canvas                                                              *)
(***************************************************************************)
\* the note requests of the quiz generators and of the reference list
GeneratedNote ==
    /\ HasNote
    /\ WellFormed(data.note.pitch)
    /\ \/ clefOf(data) = "treble" /\ data.note.pitch[2] \in {"4", "5"}
       \/ clefOf(data) = "bass" /\ data.note.pitch[2] \in {"2", "3"}

InCanvas(y) == 0 <= y /\ y <= height

PrimInCanvas(prim) ==
    CASE prim.role = "notehead" -> InCanvas(prim.cy)
      [] prim.role = "ledger" -> InCanvas(prim.y1) /\ InCanvas(prim.y2)
      [] prim.role = "stem" -> InCanvas(prim.y1) /\ InCanvas(prim.y2)
      [] prim.role = "flag" -> InCanvas(prim.d.M[2]) /\ InCanvas(prim.d.to[2])
      [] OTHER -> TRUE

\* C20: for every note request the generators and the reference list can
\* produce (treble octaves 4-5, bass octaves 2-3, any duration) the notehead
\* centre, every ledger line, both stem ends and every flag end point have
\* y-coordinates inside the canvas height, 0..280.
C20_WithinCanvas ==
    (Rendered /\ GeneratedNote) =>
        \A i \in 1..Len(scene) : PrimInCanvas(scene[i])

C20_Witness ==
    /\ Rendered /\ GeneratedNote
    /\ clefOf(data) = "bass"
    /\ data.note = [pitch |-> <<"C", "2">>, duration |-> "thirty-second"]
    /\ locals.noteY = 220
    /\ locals.ledgerLines = <<200, 220>>
    /\ Len(ByRole(scene, "flag")) = 3
    /\ PrimInCanvas(ByRole(scene, "notehead")[1])

-----------------------------------------------------------------------------
(* The legacy Staff component (Staff.tsx, first variant): treble only,     *)
(* width 300, staff lines at 90..170                                       *)

legacy_width == 300
legacy_height == 250
legacy_staffYStart == 90
legacy_staffLines == [i \in 1..5 |-> legacy_staffYStart + (i - 1) * lineSpacing]

legacy_noteY(stepsFromC4) == 170 - (stepsFromC4 - 2) * 10

legacy_stemDirection(stepsFromC4) == IF stepsFromC4 >= 6 THEN "down" ELSE "up"

legacy_stemHeight == 70

legacy_stemX(dir) == IF dir = "up" THEN 164 ELSE 136

\* if (noteY >= 190) for (y = 190; y <= noteY; y += 20); if (noteY <= 70) for (y = 70; y >= noteY; y -= 20)
legacy_ledgerLines(ny) ==
    (IF ny >= 190 THEN ledgerBelow(190, ny) ELSE <<>>)
    \o (IF ny <= 70 THEN ledgerAbove(70, ny) ELSE <<>>)

legacy_noteLocals(noteData) ==
    LET stepsFromC4 == getNoteStepsFromC4(noteData.pitch[1], parseInt(noteData.pitch[2]))
        ny == legacy_noteY(stepsFromC4)
        dir == legacy_stemDirection(stepsFromC4)
    IN  [matched |-> TRUE,
         stepsFromC4 |-> stepsFromC4,
         noteY |-> ny,
         stemDirection |-> dir,
         stemX |-> legacy_stemX(dir),
         stemStartY |-> ny + (IF dir = "up" THEN -5 ELSE 5),
         stemEndY |-> ny + (IF dir = "up" THEN -legacy_stemHeight ELSE legacy_stemHeight),
         ledgerLines |-> legacy_ledgerLines(ny)]

\* <path d="M x y Q .. Q .. Z"/>: a closed flag starting dy below the stem
\* tip, s = 1 for a stem up (curving down), s = -1 for a stem down
legacy_flag(l, dy, s) ==
    [kind |-> "path", role |-> "flag",
     d |-> [M |-> <<l.stemX, l.stemEndY + s * dy>>,
            Q1 |-> <<l.stemX + 18, l.stemEndY + s * (dy + 12)>>,
            to1 |-> <<l.stemX + 18, l.stemEndY + s * (dy + 40)>>,
            Q2 |-> <<l.stemX + 8, l.stemEndY + s * (dy + 28)>>,
            to2 |-> <<l.stemX, l.stemEndY + s * (dy + 45)>>,
            Z |-> TRUE],
     fill |-> noteColor]

legacy_flagPrims(noteData, l) ==
    IF ~hasFlags(noteData.duration) THEN <<>>
    ELSE LET s == IF l.stemDirection = "up" THEN 1 ELSE -1
         IN  <<legacy_flag(l, 0, s)>>
             \o (IF noteData.duration \in {"sixteenth", "thirty-second"}
                 THEN <<legacy_flag(l, 15, s)>> ELSE <<>>)
             \o (IF noteData.duration = "thirty-second"
                 THEN <<legacy_flag(l, 30, s)>> ELSE <<>>)

legacy_renderNote(noteData) ==
    IF ~pitchMatches(noteData.pitch) THEN <<>>
    ELSE LET l == legacy_noteLocals(noteData)
         IN  [i \in 1..Len(l.ledgerLines) |->
                [kind |-> "line", role |-> "ledger",
                 x1 |-> 130, y1 |-> l.ledgerLines[i],
                 x2 |-> 170, y2 |-> l.ledgerLines[i],
                 stroke |-> "black", strokeWidth |-> 2]]
             \o <<[kind |-> "ellipse", role |-> "notehead",
                   cx |-> 150, cy |-> l.noteY, rx |-> 16, ry |-> 11,
                   rotate |-> <<-15, 150, l.noteY>>,
                   fill |-> (IF noteData.duration \in {"whole", "half"}
                             THEN "none" ELSE noteColor),
                   stroke |-> noteColor, strokeWidth |-> 3]>>
             \o (IF noteData.duration # "whole"
                 THEN <<[kind |-> "line", role |-> "stem",
                         x1 |-> l.stemX, y1 |-> l.stemStartY,
                         x2 |-> l.stemX, y2 |-> l.stemEndY,
                         stroke |-> noteColor, strokeWidth |-> 2]>>
                 ELSE <<>>)
             \o legacy_flagPrims(noteData, l)

\* the same switch as the canonical variant, drawn around x = 150 and ten
\* units higher
legacy_renderSymbol(symbolData) ==
    LET raise(prim) ==
            IF "translate" \in DOMAIN prim /\ prim.translate # <<0, 0>>
            THEN [prim EXCEPT !.translate = <<prim.translate[1], prim.translate[2] - 10>>]
            ELSE IF "d" \in DOMAIN prim
            THEN [prim EXCEPT !.d = [M |-> <<prim.d.M[1], prim.d.M[2] - 10>>,
                                     Q |-> <<prim.d.Q[1], prim.d.Q[2] - 10>>,
                                     to |-> <<prim.d.to[1], prim.d.to[2] - 10>>]]
            ELSE [prim EXCEPT !.y = prim.y - 10]
        canon == renderSymbol(symbolData, legacy_width)
    IN  [i \in 1..Len(canon) |-> raise(canon[i])]

legacy_hasStaff(d) ==
    \/ "note" \in DOMAIN d
    \/ /\ "symbol" \in DOMAIN d
       /\ d.symbol.value \in {"whole_rest", "half_rest", "treble_clef", "bass_clef",
                              "quarter_rest", "eighth_rest"}

legacy_Staff(d) ==
    (IF legacy_hasStaff(d)
     THEN [i \in 1..5 |->
            [kind |-> "line", role |-> "staff", x1 |-> 20, y1 |-> legacy_staffLines[i],
             x2 |-> legacy_width - 20, y2 |-> legacy_staffLines[i],
             stroke |-> "#333", strokeWidth |-> 2]]
     ELSE <<>>)
    \o (IF "note" \in DOMAIN d
        THEN <<[kind |-> "text", role |-> "clef", x |-> 30, y |-> 155,
                fontSize |-> 90, fontFamily |-> "serif", content |-> "G_CLEF"]>>
        ELSE <<>>)
    \o (IF "note" \in DOMAIN d THEN legacy_renderNote(d.note) ELSE <<>>)
    \o (IF "symbol" \in DOMAIN d THEN legacy_renderSymbol(d.symbol) ELSE <<>>)

(***************************************************************************)
(* The two variants of the component                                       *)
(***************************************************************************)
Count(sc, r) == Len(ByRole(sc, r))

\* what the two variants must agree on for the notes they both draw
NoteAgreement(L) ==
    IF HasNote /\ WellFormed(data.note.pitch)
    THEN LET ll == legacy_noteLocals(data.note)
         IN  /\ ll.stemDirection = locals.stemDirection
             /\ locals.noteY - ll.noteY = 10
             /\ Count(L, "stem") = Count(scene, "stem")
             /\ Count(L, "flag") = Count(scene, "flag")
             /\ Count(L, "notehead") = 1 /\ Count(scene, "notehead") = 1
             /\ ByRole(L, "notehead")[1].fill = ByRole(scene, "notehead")[1].fill
             /\ Len(ll.ledgerLines) = Len(locals.ledgerLines)
             /\ \A i \in 1..Len(ll.ledgerLines) :
                   locals.ledgerLines[i] - ll.ledgerLines[i] = 10
    ELSE NotePrims(L) = <<>> /\ NotePrims(scene) = <<>>

\* C21: the legacy treble-only variant and the clef-aware variant are the
\* same engine up to pixel constants: for every request with treble or
\* absent clef they agree on stem direction, stem presence, flag count,
\* notehead fill, number and side of ledger lines, staff-line visibility and
\* clef-glyph visibility, and their noteY values differ by 10.
C21_VariantsAgree ==
    (Rendered /\ clefOf(data) = "treble") =>
        LET L == legacy_Staff(data)
        IN  /\ NoteAgreement(L)
            /\ (Count(L, "staff") = 5) <=> (Count(scene, "staff") = 5)
            /\ Count(L, "staff") \in {0, 5}
            /\ Count(L, "clef") = Count(scene, "clef")

-----------------------------------------------------------------------------
(* App.tsx: the quiz flow.  currentQuestionIndex is 0-based as in the code, *)
(* sequences are 1-based.  A question object is identified by the           *)
(* generateQuiz call that made it (quiz) and its position (id).  The call   *)
(* of updateStats and the setTimeout a handler makes are recorded in        *)
(* lastCall; the storage service itself is modelled further below.          *)

\* the answer strings of a quiz
AnswerNames == {"do", "re"}

\* generateQuiz: the quizzes the g-th call can return
Quizzes(g) ==
    {[i \in 1..NumQuestions |->
        [quiz |-> g, id |-> i - 1, correctAnswer |-> f[i], options |-> AnswerNames]] :
     f \in [1..NumQuestions -> AnswerNames]}

\* gameState.questions[gameState.currentQuestionIndex] is defined
QuestionShown ==
    /\ gameState.status = "playing"
    /\ gameState.currentQuestionIndex < Len(gameState.questions)

currentQ == gameState.questions[gameState.currentQuestionIndex + 1]

\* the guard of handleAnswer never taken
answered_never(sel, fb) == FALSE

\* if (selectedOption || feedback) return;
answered(sel, fb) == sel # null \/ fb # null

\* the updater handleAnswer's timer passes to setGameState for a question
\* that is not the last
advance(prev, isCorrect, newHistoryEntry) ==
    [prev EXCEPT !.score = IF isCorrect THEN prev.score + 1 ELSE prev.score,
                 !.currentQuestionIndex = prev.currentQuestionIndex + 1,
                 !.history = Append(prev.history, newHistoryEntry)]

\* the last answer left out of the history
finishGame_dropsEntry(prev, lastCorrect, lastHistoryEntry) ==
    [prev EXCEPT !.score = IF lastCorrect THEN prev.score + 1 ELSE prev.score,
                 !.status = "result"]

\* the updater of finishGame
finishGame(prev, lastCorrect, lastHistoryEntry) ==
    [prev EXCEPT !.score = IF lastCorrect THEN prev.score + 1 ELSE prev.score,
                 !.status = "result",
                 !.history = Append(prev.history, lastHistoryEntry)]

\* startGame, from a level card of the menu or the retry button of the result
StartGame ==
    /\ gameState.status \in {"menu", "result"}
    /\ games < MaxGames
    /\ \E questions \in Quizzes(games + 1) :
          gameState' = [gameState EXCEPT !.status = "playing",
                                         !.currentQuestionIndex = 0,
                                         !.score = 0,
                                         !.questions = questions,
                                         !.history = <<>>]
    /\ selectedOption' = null
    /\ feedback' = null
    /\ games' = games + 1
    /\ lastCall' = [kind |-> "startGame", option |-> null,
                    updateStats |-> FALSE, setTimeout |-> FALSE]
    /\ UNCHANGED <<timers, engineVars, serviceVars>>

\* the menu button of renderGame (drawn only with a question) and of renderResult
BackToMenu ==
    /\ QuestionShown \/ gameState.status = "result"
    /\ gameState' = [gameState EXCEPT !.status = "menu"]
    /\ lastCall' = [kind |-> "menu", option |-> null,
                    updateStats |-> FALSE, setTimeout |-> FALSE]
    /\ UNCHANGED <<selectedOption, feedback, timers, games, engineVars, serviceVars>>

\* handleAnswer(option)
HandleAnswer(option) ==
    /\ QuestionShown
    /\ option \in currentQ.options
    /\ IF answered(selectedOption, feedback)
       THEN /\ lastCall' = [kind |-> "handleAnswer", option |-> option,
                            updateStats |-> FALSE, setTimeout |-> FALSE]
            /\ UNCHANGED <<selectedOption, feedback, timers>>
       ELSE LET isCorrect == option = currentQ.correctAnswer IN
            /\ Len(timers) < MaxTimers
            /\ selectedOption' = option
            /\ feedback' = IF isCorrect THEN "correct" ELSE "incorrect"
            /\ timers' = Append(timers,
                            [question |-> currentQ, option |-> option,
                             isCorrect |-> isCorrect,
                             currentQuestionIndex |-> gameState.currentQuestionIndex,
                             length |-> Len(gameState.questions)])
            /\ lastCall' = [kind |-> "handleAnswer", option |-> option,
                            updateStats |-> TRUE, setTimeout |-> TRUE]
    /\ UNCHANGED <<gameState, games, engineVars, serviceVars>>

\* the callback of setTimeout(..., 1500); equal delays fire oldest first
TimerFire ==
    /\ timers # <<>>
    /\ LET t == Head(timers)
           newHistoryEntry == [question |-> t.question, userAnswer |-> t.option,
                               isCorrect |-> t.isCorrect]
       IN  IF t.currentQuestionIndex < t.length - 1
           THEN /\ gameState' = advance(gameState, t.isCorrect, newHistoryEntry)
                /\ selectedOption' = null
                /\ feedback' = null
           ELSE /\ gameState' = finishGame(gameState, t.isCorrect, newHistoryEntry)
                /\ UNCHANGED <<selectedOption, feedback>>
    /\ timers' = Tail(timers)
    /\ lastCall' = [kind |-> "timeout", option |-> null,
                    updateStats |-> FALSE, setTimeout |-> FALSE]
    /\ UNCHANGED <<games, engineVars, serviceVars>>

QuizNext ==
    \/ StartGame
    \/ BackToMenu
    \/ \E option \in AnswerNames : HandleAnswer(option)
    \/ TimerFire

QuizSpec == Init /\ [][QuizNext]_vars

\* the user stays on the playing screen and answers every question
PlayNext ==
    \/ StartGame
    \/ \E option \in AnswerNames : HandleAnswer(option)
    \/ TimerFire

PlaySpec ==
    /\ Init
    /\ [][PlayNext]_vars
    /\ WF_vars(TimerFire)
    /\ WF_vars(\E option \in AnswerNames : HandleAnswer(option))

(***************************************************************************)
(* The quiz flow                                                           *)
(***************************************************************************)
\* C22: in every reachable state of the quiz flow, under any interleaving of
\* answer, menu and start clicks and timer firings, score <= length of
\* history <= number of questions, and while status is 'playing'
\* currentQuestionIndex < number of questions.
C22_CountersInRange ==
    /\ gameState.score <= Len(gameState.history)
    /\ Len(gameState.history) <= Len(gameState.questions)
    /\ gameState.status = "playing"
          => gameState.currentQuestionIndex < Len(gameState.questions)

\* the oldest pending timer fires in this step
Fires == timers # <<>> /\ timers' = Tail(timers) /\ lastCall'.kind = "timeout"

\* C23: a feedback timer still pending when the user leaves the quiz has no
\* effect when it fires: it does not change status away from 'menu', and it
\* does not change the currentQuestionIndex, score or history of a newly
\* started quiz.
C23_StaleTimerInert ==
    [][Fires =>
         /\ gameState.status = "menu" => gameState'.status = "menu"
         /\ Head(timers).question.quiz # games
               => /\ gameState'.currentQuestionIndex = gameState.currentQuestionIndex
                  /\ gameState'.score = gameState.score
                  /\ gameState'.history = gameState.history]_vars

Correct(h) == {j \in 1..Len(h) : h[j].isCorrect}

\* the history is the answered prefix of the quiz
PlayInv ==
    LET h == gameState.history
        qs == gameState.questions
    IN  /\ gameState.status = "playing"
              => /\ gameState.currentQuestionIndex = Len(h)
                 /\ gameState.currentQuestionIndex < NumQuestions
        /\ gameState.status = "result"
              => /\ Len(h) = NumQuestions
                 /\ gameState.currentQuestionIndex = NumQuestions - 1
        /\ gameState.status # "menu"
              => /\ Len(qs) = NumQuestions
                 /\ Len(h) <= Len(qs)
                 /\ \A j \in 1..Len(h) :
                       /\ j <= Len(qs)
                       /\ h[j].question = qs[j]
                       /\ h[j].isCorrect <=> (h[j].userAnswer = qs[j].correctAnswer)
                 /\ gameState.score = Cardinality(Correct(h))

\* C24: if the user answers every question and never leaves the playing
\* screen, then after the k-th feedback timer fires (k below the number of
\* questions) currentQuestionIndex = k, history holds exactly the first k
\* questions in quiz order with the chosen answers, and score is the number
\* of correct entries; after the timer of the last question fires, status is
\* 'result' with history as long as the quiz; and a quiz being played
\* eventually reaches that state.
C24_QuizRunsToResult ==
    /\ []PlayInv
    /\ [][Fires => gameState'.history =
                      Append(gameState.history,
                             [question |-> currentQ, userAnswer |-> selectedOption,
                              isCorrect |-> selectedOption = currentQ.correctAnswer])]_vars
    /\ (gameState.status = "playing")
          ~> (gameState.status = "result" /\ Len(gameState.history) = NumQuestions)

C24_Witness ==
    /\ gameState.status = "result"
    /\ Len(gameState.history) = NumQuestions
    /\ gameState.score = 1
    /\ gameState.history[1].userAnswer = "re"
    /\ gameState.history[NumQuestions].isCorrect
    /\ timers = <<>>
    /\ lastCall.kind = "timeout"

FeedbackShowing == selectedOption # null \/ feedback # null

\* C25: while the feedback of an answered question is showing (selectedOption
\* or feedback is set) a further handleAnswer call is a no-op: it changes no
\* state, records no statistics update and schedules no timer; no question
\* has two timers pending.
C25_AnswerOnce ==
    /\ [](\A i, j \in 1..Len(timers) :
             timers[i].question = timers[j].question => i = j)
    /\ [][(lastCall'.kind = "handleAnswer" /\ FeedbackShowing)
             => /\ UNCHANGED <<gameState, selectedOption, feedback, timers, games>>
                /\ ~lastCall'.updateStats
                /\ ~lastCall'.setTimeout]_vars

C25_Witness ==
    /\ QuestionShown
    /\ FeedbackShowing
    /\ selectedOption = "do"
    /\ lastCall = [kind |-> "handleAnswer", option |-> "re",
                   updateStats |-> FALSE, setTimeout |-> FALSE]
    /\ Len(timers) = 1
    /\ timers[1].option = "do"

-----------------------------------------------------------------------------
(* constants.ts: the answer catalogues (the Japanese strings transliterated) *)

undefined == "undefined"

PITCH_NAMES == <<"do (C)", "re (D)", "mi (E)", "fa (F)", "so (G)", "la (A)", "si (B)">>

DurationOrder == <<"whole", "half", "quarter", "eighth", "sixteenth", "thirty-second">>

DURATION_NAMES ==
    [d \in Durations |->
        CASE d = "whole" -> "whole note"
          [] d = "half" -> "half note"
          [] d = "quarter" -> "quarter note"
          [] d = "eighth" -> "8th note"
          [] d = "sixteenth" -> "16th note"
          [] d = "thirty-second" -> "32nd note"]

\* Object.values(DURATION_NAMES), in insertion order
DurationAnswers == [i \in 1..Len(DurationOrder) |-> DURATION_NAMES[DurationOrder[i]]]

MUSICAL_SYMBOLS ==
    <<[value |-> "ff", type |-> "text", answer |-> "fortissimo"],
      [value |-> "pp", type |-> "text", answer |-> "pianissimo"],
      [value |-> "mf", type |-> "text", answer |-> "mezzo forte"],
      [value |-> "mp", type |-> "text", answer |-> "mezzo piano"],
      [value |-> "f", type |-> "text", answer |-> "forte"],
      [value |-> "p", type |-> "text", answer |-> "piano"],
      [value |-> "cresc.", type |-> "text", answer |-> "crescendo"],
      [value |-> "dim.", type |-> "text", answer |-> "diminuendo"],
      [value |-> "sharp", type |-> "shape", answer |-> "sharp sign"],
      [value |-> "flat", type |-> "shape", answer |-> "flat sign"],
      [value |-> "natural", type |-> "shape", answer |-> "natural sign"],
      [value |-> "fermata", type |-> "shape", answer |-> "fermata sign"],
      [value |-> "treble_clef", type |-> "shape", answer |-> "G clef"],
      [value |-> "bass_clef", type |-> "shape", answer |-> "F clef"],
      [value |-> "repeat_start", type |-> "shape", answer |-> "repeat sign"],
      [value |-> "tie", type |-> "shape", answer |-> "tie sign"],
      [value |-> "whole_rest", type |-> "shape", answer |-> "whole rest"],
      [value |-> "half_rest", type |-> "shape", answer |-> "half rest"],
      [value |-> "quarter_rest", type |-> "shape", answer |-> "quarter rest"],
      [value |-> "eighth_rest", type |-> "shape", answer |-> "eighth rest"]>>

-----------------------------------------------------------------------------
(* Math.random: the k-th call returns seed[k mod SeedLength] / RandDenominator *)

\* Math.random() returns a multiple of 1 / RandDenominator in [0, 1)
RandDenominator == 4

\* the random stream repeats after this many calls
SeedLength == 3

Seeds == [1..SeedLength -> 0..(RandDenominator - 1)]

random(seed, k) == seed[(k % SeedLength) + 1]

\* Math.floor(Math.random() * n)
floorRandom(r, n) == (r * n) \div RandDenominator

\* Math.random() > num / den
randomAbove(r, num, den) == r * den > num * RandDenominator

-----------------------------------------------------------------------------
(* constants.ts: shuffleArray *)

swap(arr, i, j) == [arr EXCEPT ![i] = arr[j], ![j] = arr[i]]

\* for (let i = newArr.length - 1; i > 0; i--) { j = floor(random * (i + 1)); swap }
RECURSIVE shuffleLoop(_, _, _, _)
shuffleLoop(newArr, i, seed, k) ==
    IF i <= 0 THEN newArr
    ELSE LET j == floorRandom(random(seed, k), i + 1)
         IN  shuffleLoop(swap(newArr, i + 1, j + 1), i - 1, seed, k + 1)

shuffleArray(array, seed, k) == shuffleLoop(array, Len(array) - 1, seed, k)

\* the Math.random calls one shuffleArray makes
shuffleCalls(array) == IF Len(array) > 1 THEN Len(array) - 1 ELSE 0

\* array.slice(0, n)
slice(array, n) == SubSeq(array, 1, IF Len(array) < n THEN Len(array) ELSE n)

\* the filter that removes nothing
without_nothing(array, v) == array

\* array.filter(x => x !== v)
without(array, v) == SelectSeq(array, LAMBDA x : x # v)

-----------------------------------------------------------------------------
(* questionGenerator.ts: pickWeightedItem, with getKey = s => s.answer *)

EmptyStats == [key \in {} |-> [correct |-> 0, wrong |-> 0]]

\* stats[key] || { correct: 0, wrong: 0 }
itemStatsOf(stats, key) ==
    IF key \in DOMAIN stats THEN stats[key] ELSE [correct |-> 0, wrong |-> 0]

\* let pool = items.filter(item => getKey(item) !== lastAnswer); if (pool.length === 0) pool = items
pickPool(items, lastAnswer) ==
    LET pool == SelectSeq(items, LAMBDA item : item.answer # lastAnswer)
    IN  IF Len(pool) = 0 THEN items ELSE pool

\* const weight = (itemStats.wrong * 2) + 1
weight(itemStats) == (itemStats.wrong * 2) + 1

copies(item, n) == [i \in 1..n |-> item]

RECURSIVE weightedPool(_, _)
weightedPool(pool, stats) ==
    IF pool = <<>> THEN <<>>
    ELSE copies(Head(pool), weight(itemStatsOf(stats, Head(pool).answer)))
         \o weightedPool(Tail(pool), stats)

pickWeightedItem(items, stats, isAdaptive, lastAnswer, r) ==
    LET pool == pickPool(items, lastAnswer)
    IN  IF ~isAdaptive
        THEN pool[floorRandom(r, Len(pool)) + 1]
        ELSE LET wp == weightedPool(pool, stats)
             IN  wp[floorRandom(r, Len(wp)) + 1]

-----------------------------------------------------------------------------
(* questionGenerator.ts (levels beginner-1 .. advanced-3): the questions *)

allNotes == <<"C", "D", "E", "F", "G", "A", "B">>

indexOf(array, v) == CHOOSE i \in 1..Len(array) : array[i] = v

\* `${octave}`
digit(n) == <<"0", "1", "2", "3", "4", "5", "6", "7", "8", "9">>[n + 1]

\* the options of a question: the answer and five shuffled distractors, shuffled
makeOptions(correctAnswer, allAnswers, seed, k) ==
    LET distractors == without(allAnswers, correctAnswer)
        candidates == <<correctAnswer>> \o slice(shuffleArray(distractors, seed, k), 5)
    IN  [options |-> shuffleArray(candidates, seed, k + shuffleCalls(distractors)),
         k |-> k + shuffleCalls(distractors) + shuffleCalls(candidates)]

\* stats, isAdaptive and lastAnswer are parameters the body never reads
createNoteQuestion(index, clef, notes, minOctave, maxOctave, allowedDurations, stats, isAdaptive, lastAnswer, isDurationQuestion, seed, k) ==
    LET duration ==
            allowedDurations[floorRandom(random(seed, k), Len(allowedDurations)) + 1]
        noteName == notes[floorRandom(random(seed, k + 1), Len(notes)) + 1]
        drawn == floorRandom(random(seed, k + 2), maxOctave - minOctave + 1) + minOctave
        \* octave === maxOctave && noteName !== 'C' && Math.random() > 0.5
        atEdge == drawn = maxOctave /\ noteName # "C"
        octave == IF atEdge /\ randomAbove(random(seed, k + 3), 1, 2)
                  THEN maxOctave - 1 ELSE drawn
        k1 == k + 3 + (IF atEdge THEN 1 ELSE 0)
        correctAnswer == IF isDurationQuestion
                         THEN DURATION_NAMES[duration]
                         ELSE PITCH_NAMES[indexOf(allNotes, noteName)]
        made == makeOptions(correctAnswer,
                            IF isDurationQuestion THEN DurationAnswers ELSE PITCH_NAMES,
                            seed, k1)
    IN  [q |-> [id |-> index,
                type |-> IF isDurationQuestion THEN "DURATION" ELSE "PITCH",
                renderData |-> [clef |-> clef,
                                note |-> [pitch |-> <<noteName, digit(octave)>>,
                                          duration |-> duration]],
                options |-> made.options,
                correctAnswer |-> correctAnswer],
         range |-> <<minOctave, maxOctave>>,
         weightedPool |-> <<>>,
         k |-> made.k]

inCategory(value, filterTypes) ==
    \/ "dynamics" \in filterTypes
          /\ value \in {"ff", "pp", "mf", "mp", "f", "p", "cresc.", "dim."}
    \/ "accidentals" \in filterTypes /\ value \in {"sharp", "flat", "natural"}
    \/ "structure" \in filterTypes
          /\ value \in {"treble_clef", "bass_clef", "repeat_start", "tie", "fermata"}
    \/ "rests" \in filterTypes
          /\ value \in {"whole_rest", "half_rest", "quarter_rest", "eighth_rest"}

symbolPool(filterTypes) ==
    IF filterTypes = {} THEN MUSICAL_SYMBOLS
    ELSE SelectSeq(MUSICAL_SYMBOLS, LAMBDA sym : inCategory(sym.value, filterTypes))

createSymbolQuestion(index, filterTypes, stats, isAdaptive, lastAnswer, seed, k) ==
    LET pool == symbolPool(filterTypes)
        target == pickWeightedItem(pool, stats, isAdaptive, lastAnswer, random(seed, k))
        made == makeOptions(target.answer,
                            [i \in 1..Len(MUSICAL_SYMBOLS) |-> MUSICAL_SYMBOLS[i].answer],
                            seed, k + 1)
    IN  [q |-> [id |-> index,
                type |-> "SYMBOL",
                renderData |-> [symbol |-> [type |-> target.type, value |-> target.value]],
                options |-> made.options,
                correctAnswer |-> target.answer],
         range |-> <<>>,
         weightedPool |-> IF isAdaptive
                          THEN weightedPool(pickPool(pool, lastAnswer), stats)
                          ELSE <<>>,
         k |-> made.k]

Difficulties ==
    {"beginner-1", "beginner-2", "beginner-3",
     "intermediate-1", "intermediate-2", "intermediate-3",
     "advanced-1", "advanced-2", "advanced-3"}

\* the body of the for loop of generateQuiz: switch (difficulty)
loopBody(difficulty, i, stats, isAdaptive, lastAnswer, seed, k) ==
    CASE difficulty = "beginner-1" ->
            createNoteQuestion(i, "treble", allNotes, 4, 5, <<"whole">>,
                               stats, isAdaptive, lastAnswer, FALSE, seed, k)
      [] difficulty = "beginner-2" ->
            createNoteQuestion(i, "treble", allNotes, 5, 5, <<"whole">>,
                               stats, isAdaptive, lastAnswer, FALSE, seed, k)
      [] difficulty = "beginner-3" ->
            createNoteQuestion(i, "bass", allNotes, 2, 3, <<"whole">>,
                               stats, isAdaptive, lastAnswer, FALSE, seed, k)
      [] difficulty = "intermediate-1" ->
            LET isDuration == randomAbove(random(seed, k), 1, 2)
                clef == IF randomAbove(random(seed, k + 1), 1, 2) THEN "treble" ELSE "bass"
            IN  createNoteQuestion(i, clef, allNotes,
                                   IF clef = "treble" THEN 4 ELSE 2,
                                   IF clef = "treble" THEN 5 ELSE 3,
                                   <<"whole", "half", "quarter">>,
                                   stats, isAdaptive, lastAnswer, isDuration, seed, k + 2)
      [] difficulty = "intermediate-2" ->
            LET isDuration == randomAbove(random(seed, k), 3, 10)
            IN  createNoteQuestion(i, "treble", allNotes, 4, 5, <<"quarter", "eighth">>,
                                   stats, isAdaptive, lastAnswer, isDuration, seed, k + 1)
      [] difficulty = "intermediate-3" ->
            createNoteQuestion(i, "treble", <<"B">>, 4, 4,
                               <<"eighth", "sixteenth", "thirty-second">>,
                               stats, isAdaptive, lastAnswer, TRUE, seed, k)
      [] difficulty = "advanced-1" ->
            createSymbolQuestion(i, {"dynamics"}, stats, isAdaptive, lastAnswer, seed, k)
      [] difficulty = "advanced-2" ->
            createSymbolQuestion(i, {"accidentals", "structure"},
                                 stats, isAdaptive, lastAnswer, seed, k)
      [] difficulty = "advanced-3" ->
            createSymbolQuestion(i, {"rests"}, stats, isAdaptive, lastAnswer, seed, k)

\* the item statistics getItemStats hands to the generator
StatsInputs ==
    {EmptyStats,
     ("fortissimo" :> [correct |-> 1, wrong |-> 2])
        @@ ("sharp sign" :> [correct |-> 0, wrong |-> 1])
        @@ ("whole rest" :> [correct |-> 3, wrong |-> 0])}

\* generateQuiz(difficulty, isAdaptive, stats)
GenerateQuiz ==
    /\ quizGen.pc = "idle"
    /\ \E difficulty \in Difficulties, isAdaptive \in BOOLEAN,
          stats \in StatsInputs, seed \in Seeds :
          quizGen' = [pc |-> "loop", difficulty |-> difficulty,
                      isAdaptive |-> isAdaptive, stats |-> stats,
                      seed |-> seed, k |-> 0, i |-> 0,
                      questions |-> <<>>, lastAnswer |-> undefined,
                      range |-> <<>>, weightedPool |-> <<>>]
    /\ UNCHANGED <<engineVars, appVars, localStorage, today, loaded>>

\* one iteration of for (let i = 0; i < 10; i++)
LoopIteration ==
    /\ quizGen.pc = "loop"
    /\ quizGen.i < NumQuestions
    /\ LET made == loopBody(quizGen.difficulty, quizGen.i, quizGen.stats,
                            quizGen.isAdaptive, quizGen.lastAnswer,
                            quizGen.seed, quizGen.k)
       IN  quizGen' = [quizGen EXCEPT !.questions = Append(@, made.q),
                                      !.lastAnswer = made.q.correctAnswer,
                                      !.i = @ + 1,
                                      !.k = made.k % SeedLength,
                                      !.range = made.range,
                                      !.weightedPool = made.weightedPool]
    /\ UNCHANGED <<engineVars, appVars, localStorage, today, loaded>>

\* return questions
ReturnQuiz ==
    /\ quizGen.pc = "loop"
    /\ quizGen.i = NumQuestions
    /\ quizGen' = [quizGen EXCEPT !.pc = "returned"]
    /\ UNCHANGED <<engineVars, appVars, localStorage, today, loaded>>

\* the caller takes the quiz
TakeQuiz ==
    /\ quizGen.pc = "returned"
    /\ quizGen' = IdleGen
    /\ UNCHANGED <<engineVars, appVars, localStorage, today, loaded>>

GenNext == GenerateQuiz \/ LoopIteration \/ ReturnQuiz \/ TakeQuiz

GenSpec == Init /\ [][GenNext]_vars

(***************************************************************************)
(* The generated quiz                                                      *)
(***************************************************************************)
Generating == quizGen.pc \in {"loop", "returned"}

\* C26: for every difficulty level, generateQuiz never produces two
\* consecutive questions with the same correctAnswer (every level's pool
\* holds more than one answer).
C26_NoImmediateRepeat ==
    Generating =>
        \A j \in 1..(Len(quizGen.questions) - 1) :
            quizGen.questions[j].correctAnswer # quizGen.questions[j + 1].correctAnswer

\* the octave digit of the pitch of a note question
octaveOf(q) == parseInt(q.renderData.note.pitch[2])

\* C27: for every level, the pitch of a generated note question has its
\* octave inside the [minOctave, maxOctave] range passed for that level; in
\* particular 'beginner-2' (5..5) only produces octave-5 pitches.
C27_OctaveInRange ==
    (Generating /\ quizGen.range # <<>>) =>
        LET q == quizGen.questions[Len(quizGen.questions)]
        IN  quizGen.range[1] <= octaveOf(q) /\ octaveOf(q) <= quizGen.range[2]

Occurrences(array, v) == Cardinality({i \in 1..Len(array) : array[i] = v})

\* C28: in adaptive mode pickWeightedItem puts an item with w recorded wrong
\* answers into the weighted pool 1 + 3*w times and an item with none
\* exactly once; correct-answer counts do not change the weight.
C28_WeightThreeTimesWrong ==
    (Generating /\ quizGen.weightedPool # <<>>) =>
        \A i \in 1..Len(quizGen.weightedPool) :
            LET item == quizGen.weightedPool[i]
            IN  Occurrences(quizGen.weightedPool, item)
                    = 1 + 3 * itemStatsOf(quizGen.stats, item.answer).wrong

\* C29: every question produced by generateQuiz, of any type and at any
\* level, has exactly 6 options that are pairwise distinct and contain the
\* correctAnswer exactly once.
C29_SixDistinctOptions ==
    Generating =>
        \A j \in 1..Len(quizGen.questions) :
            LET q == quizGen.questions[j]
            IN  /\ Len(q.options) = 6
                /\ \A a, b \in 1..6 : q.options[a] = q.options[b] => a = b
                /\ Occurrences(q.options, q.correctAnswer) = 1

C29_Witness ==
    /\ quizGen.pc = "returned"
    /\ quizGen.difficulty = "intermediate-1"
    /\ Len(quizGen.questions) = NumQuestions
    /\ quizGen.questions[1].type = "DURATION"
    /\ quizGen.questions[NumQuestions].type = "PITCH"
    /\ Len(quizGen.questions[1].options) = 6
    /\ quizGen.questions[1].options[1] # quizGen.questions[1].correctAnswer

-----------------------------------------------------------------------------
(* storage.ts: the statistics kept in localStorage *)

\* the answer strings the quiz reports
AnswerKeys == {"do (C)", "fortissimo"}

\* { items: {}, daily: {} }
EmptyData ==
    [items |-> EmptyStats,
     daily |-> [day \in {} |-> [date |-> day, correct |-> 0, total |-> 0]]]

\* a stored string is the JSON text of the data; parsing gives the data back
JSON_stringify(value) == [item |-> "json", text |-> value]
JSON_parse(stored) == stored.text

\* loadData
loadData(storage) ==
    IF storage.item = null THEN EmptyData ELSE JSON_parse(storage)

\* the daily total counted only for correct answers
updated_totalWhenCorrect(stored, answerKey, isCorrect, day) ==
    LET items1 == IF answerKey \in DOMAIN stored.items THEN stored.items
                  ELSE stored.items @@ (answerKey :> [correct |-> 0, wrong |-> 0])
        items2 == [items1 EXCEPT ![answerKey] =
                      IF isCorrect THEN [@ EXCEPT !.correct = @ + 1]
                                   ELSE [@ EXCEPT !.wrong = @ + 1]]
        daily1 == IF day \in DOMAIN stored.daily THEN stored.daily
                  ELSE stored.daily @@ (day :> [date |-> day, correct |-> 0, total |-> 0])
        daily2 == [daily1 EXCEPT ![day] =
                      IF isCorrect THEN [@ EXCEPT !.total = @ + 1, !.correct = @ + 1]
                                   ELSE @]
    IN  [items |-> items2, daily |-> daily2]

\* the data updateStats builds from what loadData returned
updated(stored, answerKey, isCorrect, day) ==
    LET items1 == IF answerKey \in DOMAIN stored.items THEN stored.items
                  ELSE stored.items @@ (answerKey :> [correct |-> 0, wrong |-> 0])
        items2 == [items1 EXCEPT ![answerKey] =
                      IF isCorrect THEN [@ EXCEPT !.correct = @ + 1]
                                   ELSE [@ EXCEPT !.wrong = @ + 1]]
        daily1 == IF day \in DOMAIN stored.daily THEN stored.daily
                  ELSE stored.daily @@ (day :> [date |-> day, correct |-> 0, total |-> 0])
        daily2 == [daily1 EXCEPT ![day] =
                      IF isCorrect THEN [@ EXCEPT !.total = @ + 1, !.correct = @ + 1]
                                   ELSE [@ EXCEPT !.total = @ + 1]]
    IN  [items |-> items2, daily |-> daily2]

RECURSIVE SumOver(_, _)
SumOver(f, keys) ==
    IF keys = {} THEN 0
    ELSE LET key == CHOOSE x \in keys : TRUE
         IN  f[key] + SumOver(f, keys \ {key})

\* the answers the stored data has counted, over all days
TotalOf(stored) ==
    SumOver([day \in DOMAIN stored.daily |-> stored.daily[day].total], DOMAIN stored.daily)

\* updateStats(answerKey, isCorrect); saveData swallows a failing setItem
UpdateStats ==
    /\ TotalOf(loadData(localStorage)) < MaxUpdates
    /\ \E answerKey \in AnswerKeys, isCorrect \in BOOLEAN, saved \in BOOLEAN :
          LET stored == updated(loadData(localStorage), answerKey, isCorrect, today)
          IN  /\ localStorage' = IF saved THEN JSON_stringify(stored) ELSE localStorage
              /\ loaded' = [op |-> "updateStats", data |-> stored]
    /\ UNCHANGED <<engineVars, appVars, quizGen, today>>

\* clearData: localStorage.removeItem(STORAGE_KEY)
ClearData ==
    /\ localStorage' = NoItem
    /\ loaded' = [op |-> "clearData"]
    /\ UNCHANGED <<engineVars, appVars, quizGen, today>>

\* a call of loadData (getItemStats, the statistics screen)
LoadData ==
    /\ loaded' = [op |-> "loadData", data |-> loadData(localStorage)]
    /\ UNCHANGED <<engineVars, appVars, quizGen, localStorage, today>>

\* midnight (UTC) passes
NextDay ==
    /\ today < NumDays
    /\ today' = today + 1
    /\ UNCHANGED <<engineVars, appVars, quizGen, localStorage, loaded>>

StoreNext == UpdateStats \/ ClearData \/ LoadData \/ NextDay

StoreSpec == Init /\ [][StoreNext]_vars

(***************************************************************************)
(* The stored statistics                                                   *)
(***************************************************************************)
Consistent(stored) ==
    /\ \A day \in DOMAIN stored.daily :
          /\ stored.daily[day].correct <= stored.daily[day].total
          /\ stored.daily[day].date = day
    /\ \A key \in DOMAIN stored.items :
          stored.items[key].correct >= 0 /\ stored.items[key].wrong >= 0
    /\ SumOver([key \in DOMAIN stored.items |->
                   stored.items[key].correct + stored.items[key].wrong],
               DOMAIN stored.items)
          = TotalOf(stored)

\* C30: after any sequence of updateStats and clearData calls from empty
\* storage, failing saves included, the stored statistics have correct <=
\* total for every day, correct >= 0 and wrong >= 0 for every item, and the
\* sum over items of correct + wrong equal to the sum over days of total;
\* after clearData, loadData returns the empty statistics.
C30_StatsConsistent ==
    /\ [](Consistent(loadData(localStorage))
          /\ (loaded.op = "updateStats" => Consistent(loaded.data)))
    /\ [][(loaded.op = "clearData" /\ loaded'.op = "loadData")
             => loaded'.data = EmptyData]_vars

C30_Witness ==
    /\ loaded.op = "updateStats"
    /\ localStorage # NoItem
    /\ loaded.data # loadData(localStorage)
    /\ TotalOf(loadData(localStorage)) = 2
    /\ DOMAIN loadData(localStorage).daily = {1, 2}
    /\ "fortissimo" \in DOMAIN loadData(localStorage).items
    /\ loadData(localStorage).items["fortissimo"].wrong = 1

====
